---- MODULE Spec2Model ----
(***************************************************************************)
(* rosbag2pandas: a batch pipeline that reads a rosbag2 log once, groups   *)
(* the raw records and their timestamps by topic, decodes each topic's     *)
(* records with multiprocessing.Pool.imap, and writes one table per topic  *)
(* with a second Pool.imap over save_to_file.                              *)
(*                                                                         *)
(* Strings that the program indexes (topic names, file names) are          *)
(* sequences of one-character strings.  A raw record's bytes are an        *)
(* integer: k > 0 is a well-formed payload with content k, k < 0 is a      *)
(* payload that deserialize_message rejects.  The k-th record of the log   *)
(* carries k or -k, so that every record is told apart from every other;   *)
(* the program never compares payloads.                                    *)
(***************************************************************************)
EXTENDS Integers, Sequences, FiniteSets, TLC

\* Longest log (number of records in the bag).
MaxLog == 3
\* Pool(n_cores): number of worker processes.
NCores == 2
\* chunksize of the decode imap; the source passes 500, scaled to MaxLog so
\* that a topic's records are split over several chunks.
ChunkSize == 2
\* Longest topic name given to the file-name conversion on its own.
MaxName == 4

VARIABLES
    file_format,       \* args.format
    log,               \* the bag: what reader.read_next() yields, in order
    stage,             \* Idle, Collecting, Decoding, Writing, Done, Aborted
    error,             \* why the run aborted
    reader_open,       \* reader.open() has been called
    pos,               \* records read from the bag so far
    topic_order,       \* raw_message_data.keys(), in insertion order
    raw_message_data,  \* topic -> [message_type, raw_data]
    message_stamps,    \* topic -> list of timestamps
    parsed_messages,   \* topic -> list of decoded messages
    topic_idx,         \* position of the decode loop in topic_order
    pool,              \* the live multiprocessing.Pool and its imap iterator
    files,             \* output folder: path -> rows of the file
    saved,             \* topic -> df_joined, as save_to_file built it
    sort_memo,         \* what this build's quicksort returns per key array
    run,               \* 1: first run, 2: the same command run again
    prev_files,        \* the output folder the first run left
    topic_name,        \* argument of the file-name conversion on its own
    file_name          \* its result

vars == <<file_format, log, stage, error, reader_open, pos, topic_order,
          raw_message_data, message_stamps, parsed_messages, topic_idx, pool,
          files, saved, sort_memo, run, prev_files, topic_name, file_name>>

----------------------------------------------------------------------------
\* Inputs

TopicAB == <<"/", "a", "/", "b">>
TopicA_B == <<"/", "a", "_", "b">>
TopicT == <<"/", "t">>
TopicX == <<"/", "x">>

\* Topic names a record of the bag may carry.
Topics == {TopicAB, TopicA_B, TopicT, TopicX}

\* reader.get_all_topics_and_types(): TopicX is missing from it.
Catalog ==
    << [name |-> TopicAB, type |-> "Point"],
       [name |-> TopicA_B, type |-> "Point"],
       [name |-> TopicT, type |-> "Stamped"] >>

\* Leaf columns json_normalize gives for a message of the type.
Columns(message_type) ==
    IF message_type = "Stamped" THEN {"timestamp", "x"} ELSE {"x"}

\* Values --format may be given on the command line.
FormatArgs == {"csv", "parquet", "pickle", "xml"}

\* --format declared without choices: any value is accepted.
choicesAny == FormatArgs

\* argparse choices of --format.
choices == {"csv", "parquet", "pickle"}

\* Timestamps a record may carry: enough for earlier, equal and later.
Stamps == {1, 2}

\* The k-th record of a bag: topic, bytes and timestamp.
Records(k) ==
    [topic : Topics, data : {k, -k}, timestamp : Stamps]

Logs ==
    UNION { {b \in [1..n -> UNION {Records(k) : k \in 1..n}] :
                \A k \in 1..n : b[k] \in Records(k)} : n \in 0..MaxLog }

Chars == {"/", "a", "_"}

Names == UNION {[1..n -> Chars] : n \in 0..MaxName}

----------------------------------------------------------------------------
\* Dictionaries and lists

EmptyDict == [k \in {} |-> 0]

Put(d, k, v) == [x \in DOMAIN d \cup {k} |-> IF x = k THEN v ELSE d[x]]

NoPool == [kind |-> "none"]

Min(a, b) == IF a < b THEN a ELSE b

----------------------------------------------------------------------------
\* parse_data and the pool's chunking

Malformed(data) == data < 0

\* parse_data(message_type, data): the decoded message of well-formed bytes.
parse_data(message_type, data) == [type |-> message_type, value |-> data]

\* Pool._get_tasks: consecutive batches of `size` items.
get_tasks(items, size) ==
    [j \in 1..((Len(items) + size - 1) \div size) |->
        SubSeq(items, (j - 1) * size + 1, Min(j * size, Len(items)))]

\* mapstar over one batch in a worker: the list of results, or the exception
\* of the first item that raises.
mapstar(message_type, chunk) ==
    IF \E i \in 1..Len(chunk) : Malformed(chunk[i])
    THEN [success |-> FALSE, value |-> "DecodeError"]
    ELSE [success |-> TRUE,
          value |-> [i \in 1..Len(chunk) |-> parse_data(message_type, chunk[i])]]

RECURSIVE Flatten(_)
\* (item for chunk in result for item in chunk)
Flatten(chunks) ==
    IF chunks = <<>> THEN <<>> ELSE Head(chunks) \o Flatten(Tail(chunks))

----------------------------------------------------------------------------
\* save_to_file

\* Only the first "/" removed, as topic_name[1:] would.
lstripOne(s) == IF s # <<>> /\ Head(s) = "/" THEN Tail(s) ELSE s

RECURSIVE lstrip(_)
\* str.lstrip("/"): every leading "/" is removed.
lstrip(s) ==
    IF s # <<>> /\ Head(s) = "/" THEN lstrip(Tail(s)) ELSE s

\* str.replace("/", "_")
replace(s) == [i \in 1..Len(s) |-> IF s[i] = "/" THEN "_" ELSE s[i]]

\* file_name of a non-empty topic name (topic_name[0] raises on an empty one).
FileName(name) ==
    replace(IF name[1] # "/" THEN name ELSE lstrip(name))

Extension(format) ==
    CASE format = "csv" -> "csv"
      [] format = "parquet" -> "parquet"
      [] format = "pickle" -> "pkl"

FilePath(format, name) == [base |-> FileName(name), ext |-> Extension(format)]

\* A join made after the timestamps alone were put in ascending order.
JoinSortedStamps(stamps, messages) ==
    LET p == CHOOSE q \in [1..Len(stamps) -> 1..Len(stamps)] :
                 /\ \A i, j \in 1..Len(stamps) : q[i] = q[j] => i = j
                 /\ \A i, j \in 1..Len(stamps) :
                        i < j => stamps[q[i]] <= stamps[q[j]]
    IN [i \in 1..Len(stamps) |->
           [timestamp |-> stamps[p[i]],
            message |-> IF i <= Len(messages) THEN messages[i] ELSE "NaN"]]

\* df_stamps.join(df_messages): row i is timestamp i beside message i; the
\* rows of the left frame are kept, a missing right row is NaN.
Join(stamps, messages) ==
    [i \in 1..Len(stamps) |->
        [timestamp |-> stamps[i],
         message |-> IF i <= Len(messages) THEN messages[i] ELSE "NaN"]]

Orders(n) ==
    {p \in [1..n -> 1..n] : \A i, j \in 1..n : p[i] = p[j] => i = j}

\* The orders numpy's default kind="quicksort" may return for a key array:
\* ascending by key, rows of equal key in any order. (The sort is an
\* introsort, or a vectorised sort where the CPU has one; only "stable" and
\* "mergesort" keep equal keys in place. The short key arrays here stand
\* for arrays of any length.) The order is a function of the key array:
\* sort_memo holds the one already returned for it.
Argsorts(keys) ==
    {p \in Orders(Len(keys)) :
        \A i, j \in 1..Len(keys) : i < j => keys[p[i]] <= keys[p[j]]}

\* The frame left as joined, sort_values dropped.
sort_valuesDropped(rows, p) == rows

\* sort_values(by=["timestamp"], ignore_index=True) under the order p.
sort_values(rows, p) == [i \in 1..Len(rows) |-> rows[p[i]]]

\* save_to_file up to the write: df_joined, or the ValueError that
\* DataFrame.join raises when a message column is itself named "timestamp".
Overlaps(messages) ==
    \E i \in 1..Len(messages) : "timestamp" \in Columns(messages[i].type)

----------------------------------------------------------------------------
\* The run

\* topic_type_from_name as written with the raise left out: a name that is
\* not in the catalog gets None.
topic_type_from_nameNoRaise(topic) ==
    LET hits == {i \in 1..Len(Catalog) : Catalog[i].name = topic}
    IN IF hits = {}
       THEN [raised |-> FALSE, value |-> "None"]
       ELSE [raised |-> FALSE,
             value |-> Catalog[CHOOSE i \in hits : \A j \in hits : i <= j].type]

\* topic_type_from_name: the type of the first catalog entry of that name, or
\* the ValueError raised when there is none.
topic_type_from_name(topic) ==
    LET hits == {i \in 1..Len(Catalog) : Catalog[i].name = topic}
    IN IF hits = {}
       THEN [raised |-> TRUE, value |-> "ValueError"]
       ELSE [raised |-> FALSE,
             value |-> Catalog[CHOOSE i \in hits : \A j \in hits : i <= j].type]

\* Lines 128-132 with the append put under an else: the first timestamp of a
\* topic is dropped.
AppendStampElse(stamps, topic, timestamp) ==
    Put(stamps, topic,
        IF topic \in DOMAIN stamps THEN Append(stamps[topic], timestamp)
        ELSE <<>>)

\* message_stamps after lines 128-132: the topic's list is created when
\* missing, and the timestamp appended to it.
AppendStamp(stamps, topic, timestamp) ==
    Put(stamps, topic,
        Append(IF topic \in DOMAIN stamps THEN stamps[topic] ELSE <<>>,
               timestamp))

Init ==
    /\ file_format \in FormatArgs
    /\ log \in Logs
    /\ stage = "Idle"
    /\ error = "none"
    /\ reader_open = FALSE
    /\ pos = 0
    /\ topic_order = <<>>
    /\ raw_message_data = EmptyDict
    /\ message_stamps = EmptyDict
    /\ parsed_messages = EmptyDict
    /\ topic_idx = 0
    /\ pool = NoPool
    /\ files = EmptyDict
    /\ saved = EmptyDict
    /\ sort_memo = EmptyDict
    /\ run = 1
    /\ prev_files = EmptyDict
    /\ topic_name = <<>>
    /\ file_name = <<>>

Abort(why) ==
    /\ stage' = "Aborted"
    /\ error' = why
    /\ pool' = NoPool

\* parser.parse_args(), mkdir of the output folder, reader.open().
ParseArgs ==
    /\ stage = "Idle"
    /\ IF file_format \in choices
       THEN /\ stage' = "Collecting"
            /\ reader_open' = TRUE
            /\ UNCHANGED <<error, pool>>
       ELSE /\ Abort("config")
            /\ UNCHANGED reader_open
    /\ UNCHANGED <<file_format, log, pos, topic_order, raw_message_data,
                   message_stamps, parsed_messages, topic_idx, files, saved,
                   sort_memo, run, prev_files, topic_name, file_name>>

\* One turn of the while reader.has_next() loop.
ReadNext ==
    /\ stage = "Collecting"
    /\ pos < Len(log)
    /\ pos' = pos + 1
    /\ LET topic == log[pos + 1].topic
           data == log[pos + 1].data
           timestamp == log[pos + 1].timestamp
           seen == topic \in DOMAIN raw_message_data
           found == topic_type_from_name(topic)
           entry == IF seen THEN raw_message_data[topic]
                    ELSE [message_type |-> found.value, raw_data |-> <<>>]
       IN IF ~seen /\ found.raised
          THEN /\ Abort("lookup")
               /\ UNCHANGED <<topic_order, raw_message_data, message_stamps>>
          ELSE /\ topic_order' = IF seen THEN topic_order
                                 ELSE Append(topic_order, topic)
               /\ raw_message_data' =
                      Put(raw_message_data, topic,
                          [entry EXCEPT !.raw_data = Append(@, data)])
               /\ message_stamps' =
                      AppendStamp(message_stamps, topic, timestamp)
               /\ UNCHANGED <<stage, error, pool>>
    /\ UNCHANGED <<file_format, log, reader_open, parsed_messages, topic_idx,
                   files, saved, sort_memo, run, prev_files, topic_name,
                   file_name>>

\* reader.has_next() is false: the loop over raw_message_data.keys() starts.
EndOfBag ==
    /\ stage = "Collecting"
    /\ pos = Len(log)
    /\ stage' = "Decoding"
    /\ topic_idx' = 1
    /\ UNCHANGED <<file_format, log, error, reader_open, pos, topic_order,
                   raw_message_data, message_stamps, parsed_messages, pool,
                   files, saved, sort_memo, run, prev_files, topic_name,
                   file_name>>

\* A fresh pool and its imap iterator over the tasks.
NewPool(kind, message_type, tasks) ==
    [kind |-> kind, message_type |-> message_type, tasks |-> tasks,
     sent |-> 0, running |-> {}, cache |-> EmptyDict, index |-> 0,
     items |-> <<>>]

\* with Pool(n_cores) as pool: pool.imap(partial_parse_data, raw_data, 500)
ParseTopic ==
    /\ stage = "Decoding"
    /\ pool = NoPool
    /\ topic_idx <= Len(topic_order)
    /\ LET entry == raw_message_data[topic_order[topic_idx]]
       IN pool' = NewPool("parse", entry.message_type,
                          get_tasks(entry.raw_data, ChunkSize))
    /\ UNCHANGED <<file_format, log, stage, error, reader_open, pos,
                   topic_order, raw_message_data, message_stamps,
                   parsed_messages, topic_idx, files, saved, sort_memo, run,
                   prev_files, topic_name, file_name>>

\* A worker process takes the next task off the pool's task queue.
WorkerGet ==
    /\ pool # NoPool
    /\ pool.sent < Len(pool.tasks)
    /\ Cardinality(pool.running) < NCores
    /\ pool' = [pool EXCEPT !.sent = @ + 1, !.running = @ \cup {pool.sent + 1}]
    /\ UNCHANGED <<file_format, log, stage, error, reader_open, pos,
                   topic_order, raw_message_data, message_stamps,
                   parsed_messages, topic_idx, files, saved, sort_memo, run,
                   prev_files, topic_name, file_name>>

\* A worker finishes a batch of parse_data calls and puts the result.
WorkerParse ==
    /\ pool # NoPool
    /\ pool.kind = "parse"
    /\ \E i \in pool.running :
          pool' = [pool EXCEPT
                     !.running = @ \ {i},
                     !.cache = Put(@, i, mapstar(pool.message_type,
                                                 pool.tasks[i]))]
    /\ UNCHANGED <<file_format, log, stage, error, reader_open, pos,
                   topic_order, raw_message_data, message_stamps,
                   parsed_messages, topic_idx, files, saved, sort_memo, run,
                   prev_files, topic_name, file_name>>

\* A worker runs save_to_file(file_format, output_folder, data) and puts its
\* result: the frame is joined, sorted and written under the topic's file name.
WorkerSave ==
    /\ pool # NoPool
    /\ pool.kind = "save"
    /\ \E i \in pool.running :
        LET data == pool.tasks[i]
            keys == data.message_stamps
        IN IF Overlaps(data.parsed_messages)
           THEN /\ pool' = [pool EXCEPT
                              !.running = @ \ {i},
                              !.cache = Put(@, i, [success |-> FALSE,
                                                   value |-> "ValueError"])]
                /\ UNCHANGED <<files, saved, sort_memo>>
           ELSE \E p \in Argsorts(keys) :
                /\ keys \in DOMAIN sort_memo => p = sort_memo[keys]
                /\ sort_memo' = Put(sort_memo, keys, p)
                /\ LET df_joined ==
                           sort_values(Join(keys, data.parsed_messages), p)
                   IN /\ saved' = Put(saved, data.topic_name, df_joined)
                      /\ files' =
                           IF file_format \in {"csv", "parquet", "pickle"}
                           THEN Put(files,
                                    FilePath(file_format, data.topic_name),
                                    df_joined)
                           ELSE files
                /\ pool' = [pool EXCEPT
                              !.running = @ \ {i},
                              !.cache = Put(@, i, [success |-> TRUE,
                                                   value |-> <<"None">>])]
    /\ UNCHANGED <<file_format, log, stage, error, reader_open, pos,
                   topic_order, raw_message_data, message_stamps,
                   parsed_messages, topic_idx, run, prev_files, topic_name,
                   file_name>>

\* imap_unordered: any finished result may be taken next.
ReadyUnordered(p) == DOMAIN p.cache

\* IMapIterator: the results the main process may take next. imap hands them
\* out by task index, whatever order the workers finish in.
Ready(p) == {i \in DOMAIN p.cache : i = p.index + 1}

\* next() on the imap iterator in the main process: the next batch of results
\* is appended to the list being built, or its exception is raised, which
\* leaves the with block (the pool is terminated) and ends the run.
IterNext ==
    /\ pool # NoPool
    /\ \E i \in Ready(pool) :
          IF pool.cache[i].success
          THEN /\ pool' = [pool EXCEPT
                             !.index = @ + 1,
                             !.cache = [j \in DOMAIN @ \ {i} |-> @[j]],
                             !.items = @ \o pool.cache[i].value]
               /\ UNCHANGED <<stage, error>>
          ELSE Abort(IF pool.kind = "parse" THEN "decode" ELSE "write")
    /\ UNCHANGED <<file_format, log, reader_open, pos, topic_order,
                   raw_message_data, message_stamps, parsed_messages,
                   topic_idx, files, saved, sort_memo, run, prev_files,
                   topic_name, file_name>>

\* list(...) has drained the iterator: parsed_messages[topic_name] is set, the
\* pool is closed and the for loop moves to the next topic.
TopicParsed ==
    /\ stage = "Decoding"
    /\ pool # NoPool
    /\ pool.index = Len(pool.tasks)
    /\ parsed_messages' =
           Put(parsed_messages, topic_order[topic_idx], pool.items)
    /\ topic_idx' = topic_idx + 1
    /\ pool' = NoPool
    /\ UNCHANGED <<file_format, log, stage, error, reader_open, pos,
                   topic_order, raw_message_data, message_stamps, files,
                   saved, sort_memo, run, prev_files, topic_name, file_name>>

\* The save stage entered from inside the for loop.
AllParsedNot == TRUE

\* Every topic is parsed.
AllParsed == topic_idx > Len(topic_order)

\* topic_save_data, and pool.imap(partial_save_to_file, topic_save_data).
SaveTopics ==
    /\ stage = "Decoding"
    /\ pool = NoPool
    /\ AllParsed
    /\ stage' = "Writing"
    /\ LET keys == SelectSeq(topic_order, LAMBDA t : t \in DOMAIN parsed_messages)
       IN pool' = NewPool("save", "none",
                     [k \in 1..Len(keys) |->
                        [topic_name |-> keys[k],
                         parsed_messages |-> parsed_messages[keys[k]],
                         message_stamps |-> message_stamps[keys[k]]]])
    /\ UNCHANGED <<file_format, log, error, reader_open, pos, topic_order,
                   raw_message_data, message_stamps, parsed_messages,
                   topic_idx, files, saved, sort_memo, run, prev_files,
                   topic_name, file_name>>

\* The save iterator is drained: main returns.
Finish ==
    /\ stage = "Writing"
    /\ pool # NoPool
    /\ pool.index = Len(pool.tasks)
    /\ stage' = "Done"
    /\ pool' = NoPool
    /\ UNCHANGED <<file_format, log, error, reader_open, pos, topic_order,
                   raw_message_data, message_stamps, parsed_messages,
                   topic_idx, files, saved, sort_memo, run, prev_files,
                   topic_name, file_name>>

Next ==
    \/ ParseArgs
    \/ ReadNext
    \/ EndOfBag
    \/ ParseTopic
    \/ WorkerGet
    \/ WorkerParse
    \/ WorkerSave
    \/ IterNext
    \/ TopicParsed
    \/ SaveTopics
    \/ Finish

Spec == Init /\ [][Next]_vars

----------------------------------------------------------------------------
\* The same command run a second time, on the same bag and the same build,
\* into an output folder emptied after the first run's files were set aside.

Rerun ==
    /\ stage = "Done"
    /\ run = 1
    /\ run' = 2
    /\ prev_files' = files
    /\ files' = EmptyDict
    /\ saved' = EmptyDict
    /\ stage' = "Idle"
    /\ error' = "none"
    /\ reader_open' = FALSE
    /\ pos' = 0
    /\ topic_order' = <<>>
    /\ raw_message_data' = EmptyDict
    /\ message_stamps' = EmptyDict
    /\ parsed_messages' = EmptyDict
    /\ topic_idx' = 0
    /\ pool' = NoPool
    /\ UNCHANGED <<file_format, log, sort_memo, topic_name, file_name>>

NextRerun == Next \/ Rerun

SpecRerun == Init /\ [][NextRerun]_vars

----------------------------------------------------------------------------
\* The file-name conversion of save_to_file on its own, over every name of
\* at most MaxName characters.

InitName ==
    /\ file_format = "csv"
    /\ log = <<>>
    /\ stage = "Naming"
    /\ error = "none"
    /\ reader_open = FALSE
    /\ pos = 0
    /\ topic_order = <<>>
    /\ raw_message_data = EmptyDict
    /\ message_stamps = EmptyDict
    /\ parsed_messages = EmptyDict
    /\ topic_idx = 0
    /\ pool = NoPool
    /\ files = EmptyDict
    /\ saved = EmptyDict
    /\ sort_memo = EmptyDict
    /\ run = 1
    /\ prev_files = EmptyDict
    /\ topic_name \in Names
    /\ file_name = <<>>

\* Lines 50-52 of save_to_file; topic_name[0] of an empty name is an IndexError.
NameFile ==
    /\ stage = "Naming"
    /\ IF topic_name = <<>>
       THEN /\ stage' = "Aborted"
            /\ error' = "index"
            /\ UNCHANGED file_name
       ELSE /\ stage' = "Named"
            /\ file_name' = FileName(topic_name)
            /\ UNCHANGED error
    /\ UNCHANGED <<file_format, log, reader_open, pos, topic_order,
                   raw_message_data, message_stamps, parsed_messages,
                   topic_idx, pool, files, saved, sort_memo, run, prev_files,
                   topic_name>>

NextName == NameFile

SpecName == InitName /\ [][NextName]_vars

----------------------------------------------------------------------------
\* Properties

\* Positions, in bag order, of the records of `topic` among the first n.
RecordsOf(topic, n) ==
    SelectSeq([k \in 1..n |-> k], LAMBDA k : log[k].topic = topic)

CatalogNames == {Catalog[i].name : i \in 1..Len(Catalog)}

CatalogType(topic) ==
    (CHOOSE c \in {Catalog[i] : i \in 1..Len(Catalog)} : c.name = topic).type

\* The row the bag's k-th record must become in its topic's table.
RowOf(k) ==
    [timestamp |-> log[k].timestamp,
     message |-> [type |-> CatalogType(log[k].topic), value |-> log[k].data]]

\* C1: for every topic whose decoding has ended, the decoded list has the
\* length of the topic's raw list and its i-th element is the decoding of
\* the i-th raw record, whatever order the workers finished their chunks in.
C1_DecodeKeepsOrder ==
    \A t \in DOMAIN parsed_messages :
        LET raw == raw_message_data[t].raw_data
            out == parsed_messages[t]
        IN /\ Len(out) = Len(raw)
           /\ \A i \in 1..Len(raw) :
                 /\ out[i].value = raw[i]
                 /\ out[i].type = raw_message_data[t].message_type

\* A topic of three records, decoded in two chunks.
C1_Witness ==
    \E t \in DOMAIN parsed_messages :
        /\ Len(parsed_messages[t]) > ChunkSize
        /\ Len(parsed_messages[t]) = Len(raw_message_data[t].raw_data)

Ascending(rows) ==
    \A i, j \in 1..Len(rows) : i < j => rows[i].timestamp <= rows[j].timestamp

\* The position a row had in its topic's frame before the sort.
JoinedAt(t, row) ==
    CHOOSE i \in 1..Len(message_stamps[t]) :
        parsed_messages[t][i] = row.message

\* C2 as claimed: every table is ascending by timestamp and rows of equal
\* timestamp keep the order they had before the sort.
C2_SortIsStable ==
    \A t \in DOMAIN saved :
        /\ Ascending(saved[t])
        /\ \A i, j \in 1..Len(saved[t]) :
              (i < j /\ saved[t][i].timestamp = saved[t][j].timestamp)
                  => JoinedAt(t, saved[t][i]) < JoinedAt(t, saved[t][j])

\* C2, amended: every table is ascending by timestamp and holds exactly the
\* joined rows of its topic, each once; the order among rows of equal
\* timestamp is whatever the default quicksort returns.
C2_SortIsAscending ==
    \A t \in DOMAIN saved :
        /\ Ascending(saved[t])
        /\ Len(saved[t]) = Len(message_stamps[t])
        /\ {saved[t][i] : i \in 1..Len(saved[t])}
             = {[timestamp |-> message_stamps[t][i],
                 message |-> parsed_messages[t][i]] :
                    i \in 1..Len(message_stamps[t])}

\* A table of a topic whose timestamps arrived out of order and with a tie.
C2_Witness ==
    \E t \in DOMAIN saved :
        /\ Len(saved[t]) = 3
        /\ message_stamps[t][1] > message_stamps[t][2]
        /\ message_stamps[t][1] = message_stamps[t][3]

\* Number of "/" a name begins with.
LeadingSlashes(s) ==
    CHOOSE k \in 0..Len(s) :
        /\ \A i \in 1..k : s[i] = "/"
        /\ k = Len(s) \/ s[k + 1] # "/"

\* C3 as claimed: the file name is the topic name less exactly one leading
\* "/" when it has one, with every "/" left turned into "_".
C3_StripsOneSlash ==
    stage = "Named" =>
        LET k == IF topic_name[1] = "/" THEN 1 ELSE 0
        IN /\ Len(file_name) = Len(topic_name) - k
           /\ \A i \in 1..Len(file_name) :
                 file_name[i] = IF topic_name[k + i] = "/" THEN "_"
                                ELSE topic_name[k + i]

\* C3, amended: the file name of a non-empty topic name is the name less
\* all of its leading "/", with every "/" left turned into "_".
C3_StripsLeadingSlashes ==
    stage = "Named" =>
        LET k == LeadingSlashes(topic_name)
        IN /\ Len(file_name) = Len(topic_name) - k
           /\ \A i \in 1..Len(file_name) :
                 file_name[i] = IF topic_name[k + i] = "/" THEN "_"
                                ELSE topic_name[k + i]

\* A converted name with two leading "/" and a "/" further in.
C3_Witness ==
    /\ stage = "Named"
    /\ topic_name = <<"/", "/", "a", "/">>
    /\ file_name = <<"a", "_">>

\* C4 as claimed: when the run is done, distinct topics were written to
\* distinct paths and the output folder holds one file per topic.
C4_OneFilePerTopic ==
    stage = "Done" =>
        /\ \A t1, t2 \in DOMAIN parsed_messages :
              t1 # t2 => FilePath(file_format, t1) # FilePath(file_format, t2)
        /\ Cardinality(DOMAIN files) = Cardinality(DOMAIN parsed_messages)

C6_RawAndStampsAligned ==
    /\ DOMAIN raw_message_data = DOMAIN message_stamps
    /\ \A t \in DOMAIN raw_message_data :
          LET ks == RecordsOf(t, pos)
              raw == raw_message_data[t].raw_data
          IN /\ Len(raw) = Len(message_stamps[t])
             /\ Len(raw) = Len(ks)
             /\ \A i \in 1..Len(ks) :
                   /\ raw[i] = log[ks[i]].data
                   /\ message_stamps[t][i] = log[ks[i]].timestamp

\* Mid-pass, two topics collected, one of them with two records.
C6_Witness ==
    /\ stage = "Collecting"
    /\ Cardinality(DOMAIN raw_message_data) = 2
    /\ \E t \in DOMAIN raw_message_data : Len(message_stamps[t]) = 2

\* C7: with a format other than csv, parquet and pickle the run is either
\* not started or aborted on the arguments: the bag was never opened, no
\* record read, no file written.
C7_BadFormatStopsEarly ==
    file_format \notin {"csv", "parquet", "pickle"} =>
        /\ stage \in {"Idle", "Aborted"}
        /\ stage = "Aborted" => error = "config"
        /\ ~reader_open
        /\ pos = 0
        /\ files = EmptyDict

\* The run aborted on --format xml with a bag holding records.
C7_Witness ==
    /\ file_format = "xml"
    /\ stage = "Aborted"
    /\ error = "config"
    /\ Len(log) > 0

\* C8: once a record whose topic is not in the catalog has been read, the
\* run is aborted on the lookup at that very record, and nothing was
\* decoded or written.
C8_LookupErrorAborts ==
    (\E k \in 1..pos : log[k].topic \notin CatalogNames) =>
        /\ stage = "Aborted"
        /\ error = "lookup"
        /\ log[pos].topic \notin CatalogNames
        /\ \A k \in 1..(pos - 1) : log[k].topic \in CatalogNames
        /\ parsed_messages = EmptyDict
        /\ saved = EmptyDict
        /\ files = EmptyDict

\* The lookup failed on the third record, after two were collected.
C8_Witness ==
    /\ error = "lookup"
    /\ pos = 3
    /\ raw_message_data # EmptyDict

\* C9 as claimed: the second run of the same command on the same bag leaves
\* the same files with the same rows as the first.
C9_RunsAgree ==
    (run = 2 /\ stage = "Done") => files = prev_files

StageSteps ==
    {<<"Idle", "Collecting">>, <<"Collecting", "Decoding">>,
     <<"Decoding", "Writing">>, <<"Writing", "Done">>,
     <<"Idle", "Aborted">>, <<"Collecting", "Aborted">>,
     <<"Decoding", "Aborted">>, <<"Writing", "Aborted">>}

StagesInOrder ==
    /\ pool # NoPool =>
          \/ /\ pool.kind = "parse"
             /\ stage = "Decoding"
             /\ topic_idx \in 1..Len(topic_order)
             /\ Flatten(pool.tasks)
                  = raw_message_data[topic_order[topic_idx]].raw_data
          \/ /\ pool.kind = "save"
             /\ stage = "Writing"
    /\ stage \in {"Writing", "Done"} =>
          DOMAIN parsed_messages = DOMAIN raw_message_data
    /\ (files # EmptyDict \/ saved # EmptyDict) =>
          /\ stage \in {"Writing", "Done", "Aborted"}
          /\ DOMAIN parsed_messages = DOMAIN raw_message_data
    /\ error = "decode" => (files = EmptyDict /\ saved = EmptyDict)

\* C10: the stage only ever moves Idle, Collecting, Decoding, Writing, Done,
\* or from a stage before Done to Aborted; a pool of parse tasks holds the
\* records of the one topic being decoded; nothing is written before every
\* topic is decoded, and a run aborted by a decode error wrote nothing.
C10_StagesInOrder ==
    [][/\ stage' # stage => <<stage, stage'>> \in StageSteps
       /\ StagesInOrder']_vars

\* Done after two topics were decoded one after the other and written.
C10_Witness ==
    /\ stage = "Done"
    /\ Len(topic_order) = 2
    /\ Cardinality(DOMAIN saved) = 2

====
